---- MODULE Spec2Model ----
(***************************************************************************)
(* Jobcoin mixer: the deposit gatherers (gather_deposits_task) and the     *)
(* disbursement reconciler (disburse_task) of src/python/jobcoin/          *)
(* jobcoin.py, running against the ledger of src/python/tests/utils.py     *)
(* (FakeDb behind fake_transactions / fake_addresses).                     *)
(*                                                                         *)
(* Amounts are whole numbers of cents (the quantum of                      *)
(* Decimal.quantize(Decimal("0.01"))); every amount that reaches the       *)
(* ledger in this model is a whole number of cents, on which frac2str and  *)
(* Fraction(str) are exact.  Timestamps are ticks of one clock: the        *)
(* ledger stamps a transaction with the tick at which it is appended, so   *)
(* two transactions appended within one tick carry the same timestamp      *)
(* (iso2str keeps milliseconds only).  A ledger call is one step: the      *)
(* handlers of tests/utils.py run without suspension once the request is   *)
(* read.                                                                   *)
(***************************************************************************)
EXTENDS Integers, Sequences, FiniteSets, TLC

VARIABLES
    now,                          \* the clock read by api.now() and by the ledger
    transactions,                 \* FakeDb.transactions
    addresses,                    \* FakeDb.addresses: addr -> [balance, transactions]
    recv_addr_to_wthd_addrs,      \* the registry handed to disburse_task
    min_distinct_receiver_addrs,  \* parameter of disburse_task
    g_pc,                         \* per receive address: position of its gatherer
    recv_balance,                 \* per receive address: the gatherer's fetched balance
    g_sleep,                      \* per receive address: ticks left of the gatherer's sleep
    d_pc,                         \* position of the reconciler
    d_sleep,                      \* ticks left of the reconciler's sleep
    unpaid_receipts,              \* dict in insertion order: <<[addr, owed], ...>>
    reconciled_transactions,      \* set of Transaction
    newest_transaction_dt,        \* the horizon
    house_balance,                \* house_balance.balance of the current iteration
    pay_recv,                     \* position in unpaid_receipts.items() of the payout loop
    pay_i,                        \* i of enumerate(wthd_addrs)
    balance_owed,                 \* the running remainder of the current split
    deposits,                     \* number of external deposits made so far
    restarts,                     \* number of reconciler kills so far
    frac,                         \* the Fraction handed to frac2str
    raw_amount,                   \* the "amount" string on the wire
    parsed_amount                 \* the Fraction parsed from the wire

vars == <<now, transactions, addresses, recv_addr_to_wthd_addrs,
          min_distinct_receiver_addrs, g_pc, recv_balance, g_sleep, d_pc, d_sleep,
          unpaid_receipts, reconciled_transactions, newest_transaction_dt,
          house_balance, pay_recv, pay_i, balance_owed, deposits, restarts,
          frac, raw_amount, parsed_amount>>

ledger_vars == <<transactions, addresses>>

gatherer_vars == <<g_pc, recv_balance, g_sleep>>

wire_vars == <<frac, raw_amount, parsed_amount>>

reconciler_vars == <<d_pc, d_sleep, unpaid_receipts, reconciled_transactions,
                     newest_transaction_dt, house_balance, pay_recv, pay_i,
                     balance_owed>>

(***************************************************************************)
(* Bounds of the model.                                                    *)
(***************************************************************************)
MaxTime == 2

MaxDeposits == 2

MaxRestarts == 1

\* Deposits made before the first tick in the runs checked for progress.
MaxUpFrontDeposits == 3

\* The amount of each of them, in hundredths.
UpFrontAmount == 2

\* The split on its own: owed amounts up to MaxOwed cents, up to MaxSplit
\* withdrawal addresses.
MaxOwed == 30

MaxSplit == 6

(***************************************************************************)
(* Program constants, in ticks and per-mille.                              *)
(***************************************************************************)
poll_sec == 1

min_transaction_age == 1

Epoch == 0

JitterLow == 900

JitterHigh == 1100

JitterScale == 1000

\* Sample of the factors uniform(0.9, 1.1) can return, in per-mille.  The end
\* points are taken just inside the interval: the floats 0.9 and 1.1 are not
\* the decimals 0.9 and 1.1, so a tie at the nominal end point is not a tie in
\* the code.
JitterFactors == {JitterLow + 1, JitterScale, JitterHigh - 1}

DepositAmounts == {1, 2}

house_addr == "house"

None == "None"

\* No Fraction yet: frac2str has no argument, or nothing was parsed.
NoFraction == <<>>

\* No string on the wire yet.
NoString == <<>>

RecvAddrs == {"r1", "r2"}

\* Registries a run may be started with (sets are given in iteration order).
Registry4 == [r1 |-> <<"w11", "w12", "w13", "w14">>, r2 |-> <<"w21">>]

Registry2 == [r1 |-> <<"w11", "w12">>, r2 |-> <<"w21">>]

\* Withdrawal addresses for splits of any size up to seven ("recv-7").
WthdPool == <<"w11", "w12", "w13", "w14", "w15", "w16", "w17">>

RegistryN(n) == [r1 |-> SubSeq(WthdPool, 1, n), r2 |-> <<"w21">>]

(***************************************************************************)
(* Helpers on sequences.                                                   *)
(***************************************************************************)
Range(s) == {s[i] : i \in DOMAIN s}

RECURSIVE SumAmounts(_)
\* Sum of the amounts of the transactions of sequence txs.
SumAmounts(txs) ==
    IF txs = <<>> THEN 0 ELSE Head(txs).amount + SumAmounts(Tail(txs))

\* Mutant: the first value is kept.
MaxKeeps(a, b) == a

Max(a, b) == IF a >= b THEN a ELSE b

(***************************************************************************)
(* The ledger (tests/utils.py).                                            *)
(***************************************************************************)
\* Transaction (api.py): a value; equality is equality of all four fields.
Transaction(ts, amount, to_addr, from_addr) ==
    [timestamp |-> ts, amount |-> amount, to_addr |-> to_addr, from_addr |-> from_addr]

\* fake_addresses: an address the ledger has never seen reads as balance 0.
get_balance_for_address(addr) ==
    IF addr \in DOMAIN addresses
    THEN [balance |-> addresses[addr].balance, transactions |-> addresses[addr].transactions]
    ELSE [balance |-> 0, transactions |-> <<>>]

\* FakeDb._append_transaction_to_addr with is_from=True raises
\* InsufficientFundsError for an unknown sender or a balance that would go
\* below zero; this is the condition under which it does not.
SufficientFunds(from_addr, amount) ==
    /\ from_addr \in DOMAIN addresses
    /\ addresses[from_addr].balance - amount >= 0

\* Mutant: the sender's balance is credited like the recipient's.
append_transaction_credits(db, addr, tx, is_from) ==
    IF addr \in DOMAIN db
    THEN [a \in DOMAIN db |->
            IF a = addr
            THEN [balance |-> db[a].balance + tx.amount,
                  transactions |-> Append(db[a].transactions, tx)]
            ELSE db[a]]
    ELSE [a \in DOMAIN db \cup {addr} |->
            IF a = addr
            THEN [balance |-> tx.amount, transactions |-> <<tx>>]
            ELSE db[a]]

\* FakeDb._append_transaction_to_addr, on a db whose addresses are db.
append_transaction_to_addr(db, addr, tx, is_from) ==
    IF addr \in DOMAIN db
    THEN [a \in DOMAIN db |->
            IF a = addr
            THEN [balance |-> IF is_from THEN db[a].balance - tx.amount
                                         ELSE db[a].balance + tx.amount,
                  transactions |-> Append(db[a].transactions, tx)]
            ELSE db[a]]
    ELSE [a \in DOMAIN db \cup {addr} |->
            IF a = addr
            THEN [balance |-> tx.amount, transactions |-> <<tx>>]
            ELSE db[a]]

\* FakeDb.append_transaction_and_update_balances for an accepted
\* transaction, on the ledger db = [transactions, addresses].
Appended(db, tx) ==
    LET debited == IF tx.from_addr # None
                   THEN append_transaction_to_addr(db.addresses, tx.from_addr, tx, TRUE)
                   ELSE db.addresses
    IN  [transactions |-> Append(db.transactions, tx),
         addresses |-> append_transaction_to_addr(debited, tx.to_addr, tx, FALSE)]

append_transaction_and_update_balances(tx) ==
    LET db == Appended([transactions |-> transactions, addresses |-> addresses], tx)
    IN  /\ transactions' = db.transactions
        /\ addresses' = db.addresses

\* Mutant: the transaction is on the global list before the sender is
\* checked.
AbandonedAfterAppend(db, tx) == [db EXCEPT !.transactions = Append(@, tx)]

\* The ledger as FakeDb.append_transaction_and_update_balances leaves it
\* when the sender's _append_transaction_to_addr raises: the sender comes
\* first and the raise precedes its assignments, so nothing was written.
Abandoned(db, tx) == db

\* Api.post_transfer answered by fake_transactions: the ledger stamps the
\* transaction with its clock and appends it, or answers 422 from the
\* raise.  ok tells which.
post_transfer(from_addr, to_addr, amount, ok) ==
    /\ ok = SufficientFunds(from_addr, amount)
    /\ IF ok
       THEN append_transaction_and_update_balances(
                Transaction(now, amount, to_addr, from_addr))
       ELSE LET db == Abandoned([transactions |-> transactions, addresses |-> addresses],
                                Transaction(now, amount, to_addr, from_addr))
            IN  /\ transactions' = db.transactions
                /\ addresses' = db.addresses

(***************************************************************************)
(* The reconciler's bookkeeping (disburse_task._watcher).                  *)
(***************************************************************************)
\* Mutant: only the "assert wthd_addrs" of the reverse-index loop.
RegistryNonEmpty(reg) == \A r \in DOMAIN reg : reg[r] # <<>>

\* The asserts of the reverse-index loop: no empty withdrawal set, no
\* withdrawal address under two receive addresses (or twice in one set).
RegistryValid(reg) ==
    /\ \A r \in DOMAIN reg : reg[r] # <<>>
    /\ \A r1, r2 \in DOMAIN reg : \A i \in DOMAIN reg[r1], j \in DOMAIN reg[r2] :
          reg[r1][i] = reg[r2][j] => (r1 = r2 /\ i = j)

\* The keys of wthd_addr_to_recv_addr.
WthdAddrs(reg) == UNION {Range(reg[r]) : r \in DOMAIN reg}

wthd_addr_to_recv_addr(reg, wthd_addr) ==
    CHOOSE r \in DOMAIN reg : wthd_addr \in Range(reg[r])

\* unpaid_receipts[addr] of the defaultdict, without inserting.
Owed(unpaid, addr) ==
    IF \E i \in DOMAIN unpaid : unpaid[i].addr = addr
    THEN unpaid[CHOOSE i \in DOMAIN unpaid : unpaid[i].addr = addr].owed
    ELSE 0

\* unpaid_receipts[addr] += amount: a missing key is inserted, last.
AddOwed(unpaid, addr, amount) ==
    IF \E i \in DOMAIN unpaid : unpaid[i].addr = addr
    THEN [i \in DOMAIN unpaid |->
            IF unpaid[i].addr = addr
            THEN [addr |-> addr, owed |-> unpaid[i].owed + amount]
            ELSE unpaid[i]]
    ELSE Append(unpaid, [addr |-> addr, owed |-> amount])

\* Mutant: the loop folds a transaction whether or not it is in
\* reconciled_transactions.
FoldTransactionAgain(st, tx, reg) ==
    LET folded ==
          IF tx.from_addr # None /\ tx.from_addr \in DOMAIN reg
          THEN [st EXCEPT !.newest = Max(st.newest, tx.timestamp),
                          !.unpaid = AddOwed(st.unpaid, tx.from_addr, tx.amount)]
          ELSE IF tx.to_addr \in WthdAddrs(reg)
               THEN [st EXCEPT !.unpaid =
                       AddOwed(st.unpaid, wthd_addr_to_recv_addr(reg, tx.to_addr),
                               0 - tx.amount)]
               ELSE st
    IN  [folded EXCEPT !.reconciled = folded.reconciled \cup {tx}]

\* Mutant: a sweep is debited like a payout.
FoldTransactionDebits(st, tx, reg) ==
    LET folded ==
          IF tx \notin st.reconciled
          THEN IF tx.from_addr # None /\ tx.from_addr \in DOMAIN reg
               THEN [st EXCEPT !.newest = Max(st.newest, tx.timestamp),
                               !.unpaid = AddOwed(st.unpaid, tx.from_addr, 0 - tx.amount)]
               ELSE IF tx.to_addr \in WthdAddrs(reg)
                    THEN [st EXCEPT !.unpaid =
                            AddOwed(st.unpaid, wthd_addr_to_recv_addr(reg, tx.to_addr),
                                    0 - tx.amount)]
                    ELSE st
          ELSE st
    IN  [folded EXCEPT !.reconciled = folded.reconciled \cup {tx}]

\* Mutant: a transaction of no known address moves the horizon.
FoldTransactionHorizon(st, tx, reg) ==
    LET folded ==
          IF tx \notin st.reconciled
          THEN IF tx.from_addr # None /\ tx.from_addr \in DOMAIN reg
               THEN [st EXCEPT !.newest = Max(st.newest, tx.timestamp),
                               !.unpaid = AddOwed(st.unpaid, tx.from_addr, tx.amount)]
               ELSE IF tx.to_addr \in WthdAddrs(reg)
                    THEN [st EXCEPT !.unpaid =
                            AddOwed(st.unpaid, wthd_addr_to_recv_addr(reg, tx.to_addr),
                                    0 - tx.amount)]
                    ELSE [st EXCEPT !.newest = Max(st.newest, tx.timestamp)]
          ELSE st
    IN  [folded EXCEPT !.reconciled = folded.reconciled \cup {tx}]

\* The body of "for transaction in house_balance.transactions" for one
\* transaction, on st = [unpaid, reconciled, newest].
FoldTransaction(st, tx, reg) ==
    LET folded ==
          IF tx \notin st.reconciled
          THEN IF tx.from_addr # None /\ tx.from_addr \in DOMAIN reg
               THEN [st EXCEPT !.newest = Max(st.newest, tx.timestamp),
                               !.unpaid = AddOwed(st.unpaid, tx.from_addr, tx.amount)]
               ELSE IF tx.to_addr \in WthdAddrs(reg)
                    THEN [st EXCEPT !.unpaid =
                            AddOwed(st.unpaid, wthd_addr_to_recv_addr(reg, tx.to_addr),
                                    0 - tx.amount)]
                    ELSE st
          ELSE st
    IN  [folded EXCEPT !.reconciled = folded.reconciled \cup {tx}]

RECURSIVE Fold(_, _, _)
\* The whole loop over the fetched history, in the order of the history.  The
\* state after an iteration is bound to next as a value before the following
\* iteration uses it.
Fold(st, txs, reg) ==
    IF txs = <<>> THEN st
    ELSE CHOOSE folded \in {Fold(next, Tail(txs), reg) :
                               next \in {FoldTransaction(st, Head(txs), reg)}} : TRUE

\* Mutant: the prune keeps only what is owed, dropping negative entries too.
PruneKeepsOwed(unpaid) == SelectSeq(unpaid, LAMBDA e : e.owed > 0)

\* "Clear out anyone who's been paid".
Prune(unpaid) == SelectSeq(unpaid, LAMBDA e : e.owed # 0)

\* Mutant: nothing is counted as owed.
TotalUnpaidNothing(unpaid) == 0

RECURSIVE TotalUnpaid(_)
\* sum(unpaid_receipts.values(), start=Fraction(0))
TotalUnpaid(unpaid) ==
    IF unpaid = <<>> THEN 0 ELSE Head(unpaid).owed + TotalUnpaid(Tail(unpaid))

\* Mutant: the age comparison is strict.
PayoutConditionStrict(unpaid, newest, t, min_distinct) ==
    /\ Len(unpaid) >= min_distinct
    /\ t > newest + min_transaction_age

\* Mutant: the count comparison is strict.
PayoutConditionMore(unpaid, newest, t, min_distinct) ==
    /\ Len(unpaid) > min_distinct
    /\ t >= newest + min_transaction_age

\* The condition of the payout "if".
PayoutCondition(unpaid, newest, t, min_distinct) ==
    /\ Len(unpaid) >= min_distinct
    /\ t >= newest + min_transaction_age

\* Mutant: the fraction of a cent is dropped.
QuantizeDown(num, den) == num \div den

\* Decimal.quantize(Decimal("0.01")) of num/den cents, den > 0, under the
\* default context's ROUND_HALF_EVEN.
Quantize(num, den) ==
    LET q == num \div den
        r == num % den
    IN  IF 2 * r < den THEN q
        ELSE IF 2 * r > den THEN q + 1
        ELSE IF q % 2 = 0 THEN q ELSE q + 1

\* rounded_split for an owed amount split over n withdrawal addresses with
\* jitter factor f (per-mille).
RoundedSplit(owed, n, f) == Quantize(owed * f, n * JitterScale)

\* Mutant: the running remainder is not reduced by the jittered transfer.
RemainderForgets(owed, rounded_split) == owed

\* "balance_owed -= rounded_split": what is left of the split after a
\* jittered transfer.
Remainder(owed, rounded_split) == owed - rounded_split

\* Mutant: the gatherer sweeps an empty address too.
ShouldSweepAlways(balance) == balance >= 0

\* The "if recv_balance.balance > 0" of the gatherer.
ShouldSweep(balance) == balance > 0

(***************************************************************************)
(* Initial state: an empty ledger, every task about to run its first       *)
(* iteration.                                                              *)
(***************************************************************************)
\* The locals of a freshly created disburse_task._watcher.
ReconcilerStarts ==
    /\ d_pc' = "fetch"
    /\ d_sleep' = 0
    /\ unpaid_receipts' = <<>>
    /\ reconciled_transactions' = {}
    /\ newest_transaction_dt' = Epoch
    /\ house_balance' = 0
    /\ pay_recv' = 0
    /\ pay_i' = 0
    /\ balance_owed' = 0

\* The tasks and the ledger before anything has run.
FreshStart(reg, min_distinct) ==
    /\ now = 0
    /\ transactions = <<>>
    /\ addresses = <<>>
    /\ recv_addr_to_wthd_addrs = reg
    /\ min_distinct_receiver_addrs = min_distinct
    /\ g_pc = [r \in RecvAddrs |-> "fetch"]
    /\ recv_balance = [r \in RecvAddrs |-> 0]
    /\ g_sleep = [r \in RecvAddrs |-> 0]
    /\ d_pc = "fetch"
    /\ d_sleep = 0
    /\ unpaid_receipts = <<>>
    /\ reconciled_transactions = {}
    /\ newest_transaction_dt = Epoch
    /\ house_balance = 0
    /\ pay_recv = 0
    /\ pay_i = 0
    /\ balance_owed = 0
    /\ deposits = 0
    /\ restarts = 0

\* No amount is being converted.
InitWith(reg, min_distinct) ==
    /\ FreshStart(reg, min_distinct)
    /\ frac = NoFraction
    /\ raw_amount = NoString
    /\ parsed_amount = NoFraction

\* Two receive addresses, split two ways and one way, under either threshold.
Init == \E min_distinct \in 1..Cardinality(RecvAddrs) : InitWith(Registry2, min_distinct)

\* The same with the four-way split of the tests' "recv-4", both receive
\* addresses needed for a payout.
InitFourWay == InitWith(Registry4, Cardinality(RecvAddrs))

(***************************************************************************)
(* The environment.                                                        *)
(***************************************************************************)
\* One tick less to sleep (asyncio.sleep), for a timer that is running.
Elapse(sleep) == IF sleep > 0 THEN sleep - 1 ELSE 0

\* Time passes: the clock advances and every running sleep gets shorter.
Tick ==
    /\ now < MaxTime
    /\ now' = now + 1
    /\ g_sleep' = [r \in RecvAddrs |-> Elapse(g_sleep[r])]
    /\ d_sleep' = Elapse(d_sleep)
    /\ UNCHANGED <<ledger_vars, recv_addr_to_wthd_addrs, min_distinct_receiver_addrs, wire_vars,
                   g_pc, recv_balance, d_pc, unpaid_receipts, reconciled_transactions,
                   newest_transaction_dt, house_balance, pay_recv, pay_i, balance_owed,
                   deposits, restarts>>

\* A client funds receive address recv_addr (a POST without fromAddress, as
\* the tests fund their source address).
Deposit(recv_addr, amount) ==
    /\ deposits < MaxDeposits
    /\ deposits' = deposits + 1
    /\ append_transaction_and_update_balances(Transaction(now, amount, recv_addr, None))
    /\ UNCHANGED <<now, recv_addr_to_wthd_addrs, min_distinct_receiver_addrs, wire_vars,
                   gatherer_vars, reconciler_vars, restarts>>

\* The reconciler is cancelled at a suspension point, or has died, and a
\* fresh one is created (first_disburse_task.cancel() ... disburse_task(...)
\* of test_disbursus_interruptus).
KillRestart ==
    /\ restarts < MaxRestarts
    /\ restarts' = restarts + 1
    /\ ReconcilerStarts
    /\ UNCHANGED <<now, ledger_vars, recv_addr_to_wthd_addrs,
                   min_distinct_receiver_addrs, wire_vars, gatherer_vars, deposits>>

(***************************************************************************)
(* gather_deposits_task._watcher, one per receive address.                 *)
(***************************************************************************)
\* From the end of the sleep to the next await: the fetch, and the sleep
\* when there is nothing to sweep.
GatherFetch(recv_addr) ==
    /\ g_pc[recv_addr] = "fetch"
    /\ g_sleep[recv_addr] = 0
    /\ LET fetched == get_balance_for_address(recv_addr)
       IN  IF ShouldSweep(fetched.balance)
           THEN /\ recv_balance' = [recv_balance EXCEPT ![recv_addr] = fetched.balance]
                /\ g_pc' = [g_pc EXCEPT ![recv_addr] = "transfer"]
                /\ UNCHANGED g_sleep
           ELSE /\ g_sleep' = [g_sleep EXCEPT ![recv_addr] = poll_sec]
                /\ UNCHANGED <<g_pc, recv_balance>>
    /\ UNCHANGED <<now, ledger_vars, recv_addr_to_wthd_addrs,
                   min_distinct_receiver_addrs, wire_vars, reconciler_vars, deposits, restarts>>

\* The transfer of the fetched balance, then the sleep.
GatherTransfer(recv_addr) ==
    /\ g_pc[recv_addr] = "transfer"
    /\ \E ok \in BOOLEAN :
          /\ post_transfer(recv_addr, house_addr, recv_balance[recv_addr], ok)
          /\ IF ok
             THEN /\ g_pc' = [g_pc EXCEPT ![recv_addr] = "fetch"]
                  /\ g_sleep' = [g_sleep EXCEPT ![recv_addr] = poll_sec]
             ELSE /\ g_pc' = [g_pc EXCEPT ![recv_addr] = "InsufficientFundsError"]
                  /\ UNCHANGED g_sleep
    /\ recv_balance' = [recv_balance EXCEPT ![recv_addr] = 0]
    /\ UNCHANGED <<now, recv_addr_to_wthd_addrs, min_distinct_receiver_addrs, wire_vars,
                   reconciler_vars, deposits, restarts>>

(***************************************************************************)
(* disburse_task._watcher.                                                 *)
(***************************************************************************)
\* The reconciler goes to sleep at the end of an iteration.
ReconcilerSleeps ==
    /\ d_pc' = "fetch"
    /\ d_sleep' = poll_sec
    /\ pay_recv' = 0
    /\ pay_i' = 0
    /\ balance_owed' = 0

\* The payout loop reaches entry k of unpaid_receipts.items() and looks up
\* its withdrawal addresses; a receive address that is no key of the mapping
\* raises KeyError.
StartSplit(unpaid, k) ==
    /\ d_pc' = IF unpaid[k].addr \in DOMAIN recv_addr_to_wthd_addrs
               THEN "transfer" ELSE "KeyError"
    /\ pay_recv' = k
    /\ pay_i' = 0
    /\ balance_owed' = unpaid[k].owed
    /\ UNCHANGED d_sleep

\* From the end of the sleep to the next await: reverse index, fetch, fold,
\* prune, solvency assert and payout decision.
ReconcileFetch ==
    /\ d_pc = "fetch"
    /\ d_sleep = 0
    /\ IF ~RegistryValid(recv_addr_to_wthd_addrs)
       THEN /\ d_pc' = "AssertionError"
            /\ UNCHANGED <<d_sleep, unpaid_receipts, reconciled_transactions,
                           newest_transaction_dt, house_balance, pay_recv, pay_i,
                           balance_owed>>
       ELSE LET fetched == get_balance_for_address(house_addr)
                folded == Fold([unpaid |-> unpaid_receipts,
                                reconciled |-> reconciled_transactions,
                                newest |-> newest_transaction_dt],
                               fetched.transactions, recv_addr_to_wthd_addrs)
                cleaned == Prune(folded.unpaid)
            IN  /\ house_balance' = fetched.balance
                /\ unpaid_receipts' = cleaned
                /\ reconciled_transactions' = folded.reconciled
                /\ newest_transaction_dt' = folded.newest
                /\ IF TotalUnpaid(cleaned) > fetched.balance
                   THEN /\ d_pc' = "AssertionError"
                        /\ UNCHANGED <<d_sleep, pay_recv, pay_i, balance_owed>>
                   ELSE IF /\ PayoutCondition(cleaned, folded.newest, now,
                                              min_distinct_receiver_addrs)
                           /\ cleaned # <<>>
                        THEN StartSplit(cleaned, 1)
                        ELSE ReconcilerSleeps
    /\ UNCHANGED <<now, ledger_vars, recv_addr_to_wthd_addrs,
                   min_distinct_receiver_addrs, wire_vars, gatherer_vars, deposits, restarts>>

\* One post_transfer of the payout loop and what follows it up to the next
\* await.
ReconcileTransfer ==
    /\ d_pc = "transfer"
    /\ LET recv_addr == unpaid_receipts[pay_recv].addr
           wthd_addrs == recv_addr_to_wthd_addrs[recv_addr]
           wthd_addr == wthd_addrs[pay_i + 1]
       IN  IF pay_i < Len(wthd_addrs) - 1
           THEN \E f \in JitterFactors, ok \in BOOLEAN :
                  LET rounded_split ==
                        RoundedSplit(unpaid_receipts[pay_recv].owed, Len(wthd_addrs), f)
                  IN  /\ post_transfer(house_addr, wthd_addr, rounded_split, ok)
                      /\ IF ok
                         THEN /\ balance_owed' = Remainder(balance_owed, rounded_split)
                              /\ pay_i' = pay_i + 1
                              /\ UNCHANGED <<d_pc, d_sleep, pay_recv>>
                         ELSE /\ d_pc' = "InsufficientFundsError"
                              /\ UNCHANGED <<d_sleep, pay_recv, pay_i, balance_owed>>
           ELSE \E ok \in BOOLEAN :
                  /\ post_transfer(house_addr, wthd_addr, balance_owed, ok)
                  /\ IF ok
                     THEN IF pay_recv < Len(unpaid_receipts)
                          THEN StartSplit(unpaid_receipts, pay_recv + 1)
                          ELSE ReconcilerSleeps
                     ELSE /\ d_pc' = "InsufficientFundsError"
                          /\ UNCHANGED <<d_sleep, pay_recv, pay_i, balance_owed>>
    /\ UNCHANGED <<now, recv_addr_to_wthd_addrs, min_distinct_receiver_addrs, wire_vars,
                   gatherer_vars, unpaid_receipts, reconciled_transactions,
                   newest_transaction_dt, house_balance, deposits, restarts>>

Next ==
    \/ Tick
    \/ \E recv_addr \in RecvAddrs, amount \in DepositAmounts : Deposit(recv_addr, amount)
    \/ KillRestart
    \/ \E recv_addr \in RecvAddrs : GatherFetch(recv_addr)
    \/ \E recv_addr \in RecvAddrs : GatherTransfer(recv_addr)
    \/ ReconcileFetch
    \/ ReconcileTransfer

Spec == Init /\ [][Next]_vars

SpecFourWay == InitFourWay /\ [][Next]_vars

(***************************************************************************)
(* Runs checked for progress.  The tasks are scheduled as an asyncio event *)
(* loop schedules them: a task that can run does run, and a sleep ends     *)
(* once the loop has nothing else to run, so time advances only when every *)
(* task is asleep or dead.  All deposits are                               *)
(* made before the first tick: none arrives afterwards.  Past MaxTime the  *)
(* clock reading stays at MaxTime while the sleeps still end, so that the  *)
(* tasks poll forever.                                                     *)
(***************************************************************************)
GathererRunnable(recv_addr) ==
    \/ g_pc[recv_addr] = "transfer"
    \/ g_pc[recv_addr] = "fetch" /\ g_sleep[recv_addr] = 0

ReconcilerRunnable ==
    \/ d_pc = "transfer"
    \/ d_pc = "fetch" /\ d_sleep = 0

TickIdle ==
    /\ ~ReconcilerRunnable
    /\ \A r \in RecvAddrs : ~GathererRunnable(r)
    /\ now' = IF now < MaxTime THEN now + 1 ELSE now
    /\ g_sleep' = [r \in RecvAddrs |-> Elapse(g_sleep[r])]
    /\ d_sleep' = Elapse(d_sleep)
    /\ UNCHANGED <<ledger_vars, recv_addr_to_wthd_addrs, min_distinct_receiver_addrs, wire_vars,
                   g_pc, recv_balance, d_pc, unpaid_receipts, reconciled_transactions,
                   newest_transaction_dt, house_balance, pay_recv, pay_i, balance_owed,
                   deposits, restarts>>

DepositUpFront(recv_addr, amount) ==
    /\ now = 0
    /\ deposits < MaxUpFrontDeposits
    /\ deposits' = deposits + 1
    /\ append_transaction_and_update_balances(Transaction(now, amount, recv_addr, None))
    /\ UNCHANGED <<now, recv_addr_to_wthd_addrs, min_distinct_receiver_addrs, wire_vars,
                   gatherer_vars, reconciler_vars, restarts>>

\* The reconciler is killed once, inside a payout batch of which at least one
\* transfer was accepted and at least one is still to be issued, and a fresh
\* one is started.
KillMidBatch ==
    /\ d_pc = "transfer"
    /\ pay_recv > 1 \/ pay_i > 0
    /\ restarts = 0
    /\ restarts' = 1
    /\ ReconcilerStarts
    /\ UNCHANGED <<now, ledger_vars, recv_addr_to_wthd_addrs,
                   min_distinct_receiver_addrs, wire_vars, gatherer_vars, deposits>>

\* One turn of the event loop: a task that can run takes its next step, or,
\* when none can, the earliest sleep ends.
LoopStep ==
    \/ TickIdle
    \/ \E recv_addr \in RecvAddrs : GatherFetch(recv_addr)
    \/ \E recv_addr \in RecvAddrs : GatherTransfer(recv_addr)
    \/ ReconcileFetch
    \/ ReconcileTransfer

NextLive ==
    \/ LoopStep
    \/ \E recv_addr \in RecvAddrs : DepositUpFront(recv_addr, UpFrontAmount)

\* The loop never stops while it has something to do.  Between two ticks every
\* task takes finitely many steps before it sleeps or dies, so every task that
\* can run gets its turn before time moves on.
Scheduling == WF_vars(LoopStep)

\* Every registered receive address must be owed before anything is paid.
InitLive == InitWith(Registry2, Cardinality(RecvAddrs))

SpecLive == InitLive /\ [][NextLive]_vars /\ Scheduling

SpecLiveKill == InitLive /\ [][NextLive \/ KillMidBatch]_vars /\ Scheduling

(***************************************************************************)
(* The payout loop on its own: the reconciler has just folded a pool that  *)
(* holds one sweep of owed cents from r1, to be split n ways, and one sweep *)
(* of other cents from r2, and is at its first post_transfer.              *)
(***************************************************************************)
RECURSIVE AppendedAll(_, _)
(***************************************************************************)
(* A ledger that can also answer a call with a failure other than 422      *)
(* (any other HTTP error status).  Api.get_balance_for_address asks for    *)
(* raise_for_status, so the fetch raises ClientResponseError.              *)
(* Api.post_transfer does not: it raises on 422 only, its other test       *)
(* ("isinstance(resp, HTTPException)") is never true of a response, so it  *)
(* returns as after a success and the caller goes on.                      *)
(***************************************************************************)
\* The gatherer's fetch is answered with an error status.
GatherFetchFails(recv_addr) ==
    /\ g_pc[recv_addr] = "fetch"
    /\ g_sleep[recv_addr] = 0
    /\ g_pc' = [g_pc EXCEPT ![recv_addr] = "ClientResponseError"]
    /\ UNCHANGED <<now, ledger_vars, recv_addr_to_wthd_addrs, min_distinct_receiver_addrs, wire_vars,
                   recv_balance, g_sleep, reconciler_vars, deposits, restarts>>

\* The gatherer's transfer is answered with an error status other than 422:
\* nothing is appended, post_transfer returns, the gatherer sleeps.
GatherTransferFails(recv_addr) ==
    /\ g_pc[recv_addr] = "transfer"
    /\ g_pc' = [g_pc EXCEPT ![recv_addr] = "fetch"]
    /\ g_sleep' = [g_sleep EXCEPT ![recv_addr] = poll_sec]
    /\ recv_balance' = [recv_balance EXCEPT ![recv_addr] = 0]
    /\ UNCHANGED <<now, ledger_vars, recv_addr_to_wthd_addrs, min_distinct_receiver_addrs, wire_vars,
                   reconciler_vars, deposits, restarts>>

\* The reconciler's fetch is answered with an error status.
ReconcileFetchFails ==
    /\ d_pc = "fetch"
    /\ d_sleep = 0
    /\ RegistryValid(recv_addr_to_wthd_addrs)
    /\ d_pc' = "ClientResponseError"
    /\ UNCHANGED <<now, ledger_vars, recv_addr_to_wthd_addrs, min_distinct_receiver_addrs, wire_vars,
                   gatherer_vars, d_sleep, unpaid_receipts, reconciled_transactions,
                   newest_transaction_dt, house_balance, pay_recv, pay_i, balance_owed,
                   deposits, restarts>>

\* A transfer of the payout loop is answered with an error status other than
\* 422: nothing is appended, post_transfer returns, the loop goes on.
ReconcileTransferFails ==
    /\ d_pc = "transfer"
    /\ LET recv_addr == unpaid_receipts[pay_recv].addr
           wthd_addrs == recv_addr_to_wthd_addrs[recv_addr]
       IN  IF pay_i < Len(wthd_addrs) - 1
           THEN \E f \in JitterFactors :
                  /\ balance_owed' = Remainder(balance_owed,
                        RoundedSplit(unpaid_receipts[pay_recv].owed, Len(wthd_addrs), f))
                  /\ pay_i' = pay_i + 1
                  /\ UNCHANGED <<d_pc, d_sleep, pay_recv>>
           ELSE IF pay_recv < Len(unpaid_receipts)
                THEN StartSplit(unpaid_receipts, pay_recv + 1)
                ELSE ReconcilerSleeps
    /\ UNCHANGED <<now, ledger_vars, recv_addr_to_wthd_addrs, min_distinct_receiver_addrs, wire_vars,
                   gatherer_vars, unpaid_receipts, reconciled_transactions,
                   newest_transaction_dt, house_balance, deposits, restarts>>

NextFaulty ==
    \/ Next
    \/ \E recv_addr \in RecvAddrs : GatherFetchFails(recv_addr)
    \/ \E recv_addr \in RecvAddrs : GatherTransferFails(recv_addr)
    \/ ReconcileFetchFails
    \/ ReconcileTransferFails

SpecFaulty == InitLive /\ [][NextFaulty]_vars

(***************************************************************************)
(* A registry that the operator may get wrong or edit between iterations   *)
(* (the reconciler reads recv_addr_to_wthd_addrs anew in every iteration). *)
(***************************************************************************)
\* r1 has no withdrawal address.
RegistryEmptySet == [r1 |-> <<>>, r2 |-> <<"w21">>]

\* "w21" is claimed by r1 and by r2.
RegistryShared == [r1 |-> <<"w11", "w21">>, r2 |-> <<"w21">>]

Registries == {Registry2, RegistryEmptySet, RegistryShared}

\* The mapping is edited while the reconciler is between two iterations.
RegistryEdited(reg) ==
    /\ d_pc = "fetch"
    /\ reg # recv_addr_to_wthd_addrs
    /\ recv_addr_to_wthd_addrs' = reg
    /\ UNCHANGED <<now, ledger_vars, min_distinct_receiver_addrs, wire_vars, gatherer_vars,
                   reconciler_vars, deposits, restarts>>

InitRegistry == \E reg \in Registries : InitWith(reg, Cardinality(RecvAddrs))

NextRegistry ==
    \/ Next
    \/ \E reg \in Registries : RegistryEdited(reg)

SpecRegistry == InitRegistry /\ [][NextRegistry]_vars

(***************************************************************************)
(* Funds sent straight to the pooling address, by nobody the registry      *)
(* knows.                                                                  *)
(***************************************************************************)
Donation(amount) ==
    /\ deposits < MaxDeposits
    /\ deposits' = deposits + 1
    /\ append_transaction_and_update_balances(Transaction(now, amount, house_addr, None))
    /\ UNCHANGED <<now, recv_addr_to_wthd_addrs, min_distinct_receiver_addrs, wire_vars,
                   gatherer_vars, reconciler_vars, restarts>>

NextSurplus ==
    \/ Next
    \/ \E amount \in DepositAmounts : Donation(amount)

SpecSurplus == Init /\ [][NextSurplus]_vars

(***************************************************************************)
(* Cancellation (task.cancel()).  Every position of a task in this model   *)
(* is an await: the sleep, or a ledger call whose request the ledger has   *)
(* not yet served.  Neither _watcher catches anything, so CancelledError   *)
(* ends the task there.  A call the ledger has already served when the     *)
(* cancellation arrives is the task's step taken before the cancellation.  *)
(***************************************************************************)
\* Mutant: the gatherer swallows the cancellation and goes to sleep.
CancelGathererSwallowed(recv_addr) ==
    /\ g_pc[recv_addr] \in {"fetch", "transfer"}
    /\ g_pc' = [g_pc EXCEPT ![recv_addr] = "fetch"]
    /\ g_sleep' = [g_sleep EXCEPT ![recv_addr] = poll_sec]
    /\ UNCHANGED <<now, ledger_vars, recv_addr_to_wthd_addrs, min_distinct_receiver_addrs, wire_vars,
                   recv_balance, reconciler_vars, deposits, restarts>>

CancelGatherer(recv_addr) ==
    /\ g_pc[recv_addr] \in {"fetch", "transfer"}
    /\ g_pc' = [g_pc EXCEPT ![recv_addr] = "CancelledError"]
    /\ UNCHANGED <<now, ledger_vars, recv_addr_to_wthd_addrs, min_distinct_receiver_addrs, wire_vars,
                   recv_balance, g_sleep, reconciler_vars, deposits, restarts>>

CancelReconciler ==
    /\ d_pc \in {"fetch", "transfer"}
    /\ d_pc' = "CancelledError"
    /\ UNCHANGED <<now, ledger_vars, recv_addr_to_wthd_addrs, min_distinct_receiver_addrs, wire_vars,
                   gatherer_vars, d_sleep, unpaid_receipts, reconciled_transactions,
                   newest_transaction_dt, house_balance, pay_recv, pay_i, balance_owed,
                   deposits, restarts>>

NextCancel ==
    \/ Next
    \/ \E recv_addr \in RecvAddrs : CancelGatherer(recv_addr)
    \/ CancelReconciler

SpecCancel == InitLive /\ [][NextCancel]_vars

AppendedAll(db, txs) ==
    IF txs = <<>> THEN db ELSE AppendedAll(Appended(db, Head(txs)), Tail(txs))

SweepHistory(owed, other) ==
    <<Transaction(0, owed, "r1", None), Transaction(0, owed, house_addr, "r1")>>
    \o (IF other > 0
        THEN <<Transaction(0, other, "r2", None), Transaction(0, other, house_addr, "r2")>>
        ELSE <<>>)

InitSplit ==
    \E owed \in 1..MaxOwed, n \in 1..MaxSplit, other \in {0, MaxSplit} :
        LET db == AppendedAll([transactions |-> <<>>, addresses |-> <<>>],
                              SweepHistory(owed, other))
            folded == Fold([unpaid |-> <<>>, reconciled |-> {}, newest |-> Epoch],
                           db.addresses[house_addr].transactions, RegistryN(n))
        IN  /\ now = min_transaction_age
            /\ transactions = db.transactions
            /\ addresses = db.addresses
            /\ recv_addr_to_wthd_addrs = RegistryN(n)
            /\ min_distinct_receiver_addrs = 1
            /\ g_pc = [r \in RecvAddrs |-> "fetch"]
            /\ recv_balance = [r \in RecvAddrs |-> 0]
            /\ g_sleep = [r \in RecvAddrs |-> 0]
            /\ d_pc = "transfer"
            /\ d_sleep = 0
            /\ unpaid_receipts = Prune(folded.unpaid)
            /\ reconciled_transactions = folded.reconciled
            /\ newest_transaction_dt = folded.newest
            /\ house_balance = db.addresses[house_addr].balance
            /\ pay_recv = 1
            /\ pay_i = 0
            /\ balance_owed = owed
            /\ deposits = IF other > 0 THEN 2 ELSE 1
            /\ restarts = 0
            /\ frac = NoFraction
            /\ raw_amount = NoString
            /\ parsed_amount = NoFraction

NextSplit == ReconcileTransfer

SpecSplit == InitSplit /\ [][NextSplit]_vars

(***************************************************************************)
(* What the ledger's history says about a receive address.                 *)
(***************************************************************************)
\* The history of the pooling address, as a fetch would return it now.
HouseHistory == get_balance_for_address(house_addr).transactions

\* Total swept from recv_addr into the pool, over history txs.
SweptFrom(txs, recv_addr) ==
    SumAmounts(SelectSeq(txs, LAMBDA tx : tx.from_addr = recv_addr))

\* Total transferred to the withdrawal addresses of recv_addr, over txs.
PaidFor(txs, recv_addr) ==
    SumAmounts(SelectSeq(txs, LAMBDA tx :
        tx.to_addr \in Range(recv_addr_to_wthd_addrs[recv_addr])))

\* C1: after fold and prune, the total of UnpaidReceipts is at most the pool
\* balance observed in the same fetch (unpaid_receipts and house_balance keep
\* the values of the last iteration until the next one).
C1_Solvency == TotalUnpaid(unpaid_receipts) <= house_balance

\* C2: for every receive address, the total transferred from the pool to its
\* withdrawal addresses is at most the total swept from it into the pool.
C2_NoOverPayment ==
    \A r \in RecvAddrs : PaidFor(HouseHistory, r) <= SweptFrom(HouseHistory, r)

\* The payout loop has finished the split of entry k of unpaid_receipts.
SplitDone(k) == d_pc = "fetch" \/ pay_recv > k

\* C3: once every transfer of the split of a receive address owed B has been
\* accepted, the amounts transferred to its withdrawal addresses sum to B, one
\* transfer per withdrawal address (under SpecSplit the pool's history holds no
\* earlier payout).
C3_ExactPayoutSum ==
    \A k \in DOMAIN unpaid_receipts :
        SplitDone(k) =>
            LET recv_addr == unpaid_receipts[k].addr
                paid == SelectSeq(HouseHistory, LAMBDA tx :
                            tx.to_addr \in Range(recv_addr_to_wthd_addrs[recv_addr]))
            IN  /\ SumAmounts(paid) = unpaid_receipts[k].owed
                /\ Len(paid) = Len(recv_addr_to_wthd_addrs[recv_addr])

\* A split over at least three withdrawal addresses has completed and its
\* jittered amounts differ.
C3_Witness ==
    /\ d_pc = "fetch"
    /\ Len(recv_addr_to_wthd_addrs["r1"]) >= 3
    /\ \E i, j \in DOMAIN HouseHistory :
          /\ HouseHistory[i].to_addr = "w11"
          /\ HouseHistory[j].to_addr = "w12"
          /\ HouseHistory[i].amount # HouseHistory[j].amount
    /\ C3_ExactPayoutSum

\* The bookkeeping of a reconciler that has folded nothing.
NothingFolded == [unpaid |-> <<>>, reconciled |-> {}, newest |-> Epoch]

\* The bookkeeping the running reconciler holds.
Bookkeeping == [unpaid |-> unpaid_receipts, reconciled |-> reconciled_transactions,
                newest |-> newest_transaction_dt]

Last(s) == s[Len(s)]

\* C4: an iteration that reaches the payout decision starts the payout loop
\* exactly when, after fold and prune, at least min_distinct_receiver_addrs
\* receive addresses are owed and now >= horizon + min_transaction_age; and a
\* transfer leaves the pool only while the reconciler holds at least that many
\* entries and with a timestamp of at least horizon + min_transaction_age.
C4_ThresholdGating ==
    [][/\ (ReconcileFetch /\ d_pc' # "AssertionError") =>
            ((d_pc' = "transfer") <=>
                (/\ Len(unpaid_receipts') >= min_distinct_receiver_addrs
                 /\ now >= newest_transaction_dt' + min_transaction_age))
       /\ (HouseHistory' # HouseHistory /\ Last(HouseHistory').from_addr = house_addr) =>
            (/\ d_pc = "transfer"
             /\ Len(unpaid_receipts) >= min_distinct_receiver_addrs
             /\ Last(HouseHistory').timestamp >=
                    newest_transaction_dt + min_transaction_age)]_vars

\* The payout loop has started exactly at both thresholds: two receive
\* addresses owed with a threshold of two, the newest deposit exactly
\* min_transaction_age old.
C4_Witness ==
    /\ d_pc = "transfer"
    /\ min_distinct_receiver_addrs = 2
    /\ Len(unpaid_receipts) = 2
    /\ now = newest_transaction_dt + min_transaction_age
    /\ pay_i = 1

\* C5: whatever it folded in earlier polls, the reconciler ends a fold with the
\* UnpaidReceipts and the horizon that a fresh reconciler gets from folding the
\* fetched history once.
C5_CrashRecoveryEquivalence ==
    [][(ReconcileFetch /\ RegistryValid(recv_addr_to_wthd_addrs)) =>
            LET fresh == Fold(NothingFolded, HouseHistory, recv_addr_to_wthd_addrs)
            IN  /\ Range(unpaid_receipts') = Range(Prune(fresh.unpaid))
                /\ newest_transaction_dt' = fresh.newest]_vars

\* A reconciler that was never restarted has folded a payout of its own (so it
\* has folded over at least two polls) and still owes something.
C5_Witness ==
    /\ restarts = 0
    /\ \E tx \in reconciled_transactions : tx.from_addr = house_addr
    /\ unpaid_receipts # <<>>
    /\ d_pc = "transfer"

\* Receive addresses whose sweeps and payouts do not balance on the ledger.
StillOwed == {r \in RecvAddrs : SweptFrom(HouseHistory, r) # PaidFor(HouseHistory, r)}

\* Every deposit has left its receive address, and none is to come.
AllSwept ==
    /\ now > 0
    /\ \A r \in RecvAddrs : get_balance_for_address(r).balance = 0

\* For every receive address, its withdrawal addresses have received exactly
\* what was swept from it.
PaidWhatWasSwept ==
    \A r \in RecvAddrs : PaidFor(HouseHistory, r) = SweptFrom(HouseHistory, r)

\* C6 as stated: once the reconciler was killed inside a batch and a fresh one
\* started, every receive address is eventually paid exactly what was swept
\* from it.
C6_AsStated == (restarts = 1) ~> PaidWhatWasSwept

\* The fresh reconciler has not fetched yet.
FreshlyStarted ==
    /\ restarts = 1
    /\ d_pc = "fetch"
    /\ d_sleep = 0
    /\ reconciled_transactions = {}

\* C6: a reconciler killed inside a payout batch and replaced by a fresh one
\* leads to every receive address being paid exactly what was swept from it,
\* provided that, when the fresh one starts, every deposit is already in the
\* pool and at least min_distinct_receiver_addrs receive addresses are still
\* owed.
C6_RecoveryCompletesPayouts ==
    (/\ FreshlyStarted
     /\ AllSwept
     /\ Cardinality(StillOwed) >= min_distinct_receiver_addrs) ~> PaidWhatWasSwept

\* The first reconciler was killed after paying part of a split; the fresh one
\* has paid the rest and sleeps, with the pool empty.
C6_Witness ==
    /\ restarts = 1
    /\ d_pc = "fetch"
    /\ d_sleep > 0
    /\ StillOwed = {}
    /\ \A r \in RecvAddrs : SweptFrom(HouseHistory, r) > 0
    /\ get_balance_for_address(house_addr).balance = 0
    /\ \E tx \in Range(HouseHistory) :
          tx.from_addr = house_addr /\ tx \notin reconciled_transactions

\* C7: folding the fetched history a second time changes nothing, and the
\* transactions of it that were folded in an earlier poll have no effect: the
\* fold equals the fold of the transactions not yet reconciled.
C7_IdempotentReplay ==
    LET once == Fold(Bookkeeping, HouseHistory, recv_addr_to_wthd_addrs)
        twice == Fold(once, HouseHistory, recv_addr_to_wthd_addrs)
        unseen == SelectSeq(HouseHistory, LAMBDA tx : tx \notin reconciled_transactions)
        news == Fold(Bookkeeping, unseen, recv_addr_to_wthd_addrs)
    IN  /\ twice = once
        /\ once.unpaid = news.unpaid
        /\ once.newest = news.newest

\* The pool's history holds deposits and payouts already folded and others not
\* yet folded, and something is owed.
C7_Witness ==
    /\ unpaid_receipts # <<>>
    /\ \E i, j \in DOMAIN HouseHistory :
          /\ HouseHistory[i] \in reconciled_transactions
          /\ HouseHistory[i].to_addr = house_addr
          /\ HouseHistory[j] \notin reconciled_transactions
          /\ HouseHistory[j].to_addr = house_addr
    /\ \E tx \in reconciled_transactions : tx.from_addr = house_addr

RECURSIVE SumBalances(_)
\* Sum of the balances of the addresses of sequence addrs.
SumBalances(addrs) ==
    IF addrs = <<>> THEN 0
    ELSE get_balance_for_address(Head(addrs)).balance + SumBalances(Tail(addrs))

\* Total deposited to recv_addr.
DepositedTo(recv_addr) ==
    SumAmounts(SelectSeq(get_balance_for_address(recv_addr).transactions,
                         LAMBDA tx : tx.to_addr = recv_addr))

\* At least min_distinct_receiver_addrs receive addresses have deposited and
\* no deposit is to come.
EnoughDeposited ==
    /\ now > 0
    /\ Cardinality({r \in RecvAddrs : DepositedTo(r) > 0}) >= min_distinct_receiver_addrs

\* The pool is empty and every deposit sits in its withdrawal addresses.
CompletelyDisbursed ==
    /\ get_balance_for_address(house_addr).balance = 0
    /\ \A r \in RecvAddrs :
          SumBalances(recv_addr_to_wthd_addrs[r]) = DepositedTo(r)

\* Every deposit is in the pool or paid out, but the receive addresses still
\* owed are fewer than min_distinct_receiver_addrs.
Stranded ==
    /\ AllSwept
    /\ StillOwed # {}
    /\ Cardinality(StillOwed) < min_distinct_receiver_addrs

C9_Reconstruction ==
    [][(ReconcileFetch /\ RegistryValid(recv_addr_to_wthd_addrs)) =>
            \A r \in DOMAIN recv_addr_to_wthd_addrs :
                Owed(unpaid_receipts', r) =
                    SweptFrom(HouseHistory, r) - PaidFor(HouseHistory, r)]_vars

\* C10: a gatherer iteration that fetches a balance > 0 issues one transfer,
\* of exactly that balance, from the receive address to the pooling address;
\* one that fetches 0 issues none; nothing else moves funds out of a receive
\* address.
C10_GathererSweep ==
    [][\A r \in RecvAddrs :
        /\ GatherFetch(r) =>
              LET fetched == get_balance_for_address(r).balance
              IN  /\ UNCHANGED ledger_vars
                  /\ IF fetched > 0
                     THEN g_pc'[r] = "transfer" /\ recv_balance'[r] = fetched
                     ELSE g_pc'[r] = "fetch" /\ g_sleep'[r] = poll_sec
        /\ GatherTransfer(r) =>
              \/ /\ transactions' = Append(transactions,
                        Transaction(now, recv_balance[r], house_addr, r))
                 /\ recv_balance[r] > 0
                 /\ g_pc'[r] = "fetch" /\ g_sleep'[r] = poll_sec
              \/ /\ UNCHANGED ledger_vars
                 /\ g_pc'[r] = "InsufficientFundsError"
        /\ (transactions' # transactions /\ Last(transactions').from_addr = r) =>
              GatherTransfer(r)]_vars

\* A gatherer has swept its receive address empty and is asleep.
C10_Witness ==
    \E r \in RecvAddrs :
        /\ SweptFrom(HouseHistory, r) > 0
        /\ get_balance_for_address(r).balance = 0
        /\ g_pc[r] = "fetch"
        /\ g_sleep[r] = poll_sec

\* C11: an accepted sweep of the fetched balance X > 0, no deposit having
\* reached the receive address since the fetch, leaves the receive address
\* with balance 0 and appends to the pool's history a transaction from the
\* receive address of amount X; until a deposit or another sweep, every later
\* fetch reads that same balance.
C11_SweepCompleteness ==
    [][\A r \in RecvAddrs :
        /\ (/\ GatherTransfer(r)
            /\ transactions' # transactions
            /\ get_balance_for_address(r).balance = recv_balance[r]) =>
              /\ recv_balance[r] > 0
              /\ get_balance_for_address(r)'.balance = 0
              /\ Last(HouseHistory') = Transaction(now, recv_balance[r], house_addr, r)
        /\ get_balance_for_address(r)'.balance # get_balance_for_address(r).balance =>
              /\ transactions' # transactions
              /\ r \in {Last(transactions').to_addr, Last(transactions').from_addr}]_vars

\* A receive address was swept in an earlier tick, nothing reached it since,
\* and its gatherer has fetched again, found nothing and gone to sleep.
C11_Witness ==
    \E r \in RecvAddrs :
        /\ get_balance_for_address(r).transactions # <<>>
        /\ Last(get_balance_for_address(r).transactions).from_addr = r
        /\ Last(get_balance_for_address(r).transactions).timestamp < now
        /\ get_balance_for_address(r).balance = 0
        /\ g_pc[r] = "fetch"
        /\ g_sleep[r] = poll_sec

\* C12: a transfer of the payout loop changes neither unpaid_receipts nor
\* reconciled_transactions nor newest_transaction_dt; while a reconciler lives,
\* what it owes a receive address gets smaller only in a fold that meets a
\* payout to one of its withdrawal addresses not yet reconciled.
C12_PayoutLeavesBookkeeping ==
    [][/\ ReconcileTransfer =>
            UNCHANGED <<unpaid_receipts, reconciled_transactions, newest_transaction_dt>>
       /\ \A r \in RecvAddrs :
            (restarts' = restarts /\ Owed(unpaid_receipts', r) < Owed(unpaid_receipts, r)) =>
                /\ ReconcileFetch
                /\ \E tx \in Range(HouseHistory) :
                      /\ tx \notin reconciled_transactions
                      /\ tx.from_addr = house_addr
                      /\ tx.to_addr \in Range(recv_addr_to_wthd_addrs[r])
                      /\ tx.amount > 0]_vars

\* A batch has just ended: its transfers are on the ledger, not yet
\* reconciled, and unpaid_receipts still shows everything it paid as owed.
C12_Witness ==
    /\ d_pc = "fetch"
    /\ d_sleep = poll_sec
    /\ unpaid_receipts # <<>>
    /\ get_balance_for_address(house_addr).balance = 0
    /\ TotalUnpaid(unpaid_receipts) = house_balance
    /\ house_balance > 0
    /\ \E tx \in Range(HouseHistory) :
          tx.from_addr = house_addr /\ tx \notin reconciled_transactions

\* Positions of a task that is alive: about to fetch (or asleep before it),
\* or about to transfer.
Running == {"fetch", "transfer"}

\* C13: a fetch or a transfer answered with a failure (422 or any other error
\* status) ends the task that issued it, and a task that has ended stays
\* ended: it makes no further call.
C13_FailedCallIsFatal ==
    [][/\ \A r \in RecvAddrs :
            /\ (\/ GatherFetchFails(r)
                \/ GatherTransferFails(r)
                \/ GatherTransfer(r) /\ UNCHANGED ledger_vars) => g_pc'[r] \notin Running
            /\ g_pc[r] \notin Running => g_pc'[r] = g_pc[r]
       /\ (\/ ReconcileFetchFails
           \/ ReconcileTransferFails
           \/ ReconcileTransfer /\ UNCHANGED ledger_vars) => d_pc' \notin Running
       /\ (d_pc \notin Running /\ restarts' = restarts) => d_pc' = d_pc]_vars

\* Some receive address has an empty withdrawal set, or some withdrawal
\* address appears under more than one receive address.
RegistryBroken ==
    \/ \E r \in RecvAddrs : recv_addr_to_wthd_addrs[r] = <<>>
    \/ \E r1, r2 \in RecvAddrs :
          /\ r1 # r2
          /\ Range(recv_addr_to_wthd_addrs[r1]) \cap Range(recv_addr_to_wthd_addrs[r2]) # {}

\* C14: an iteration that starts under a broken registry ends the reconciler
\* with the assertion's error before the pool balance is fetched (the fetched
\* balance and the bookkeeping stay as they were), and a reconciler so ended
\* issues no transfer.
C14_RegistryValidationFirst ==
    [][/\ (/\ d_pc = "fetch" /\ d_sleep = 0 /\ RegistryBroken
           /\ restarts' = restarts
           /\ <<d_pc, reconciler_vars>>' # <<d_pc, reconciler_vars>>) =>
              /\ d_pc' = "AssertionError"
              /\ UNCHANGED <<ledger_vars, house_balance, unpaid_receipts,
                             reconciled_transactions, newest_transaction_dt>>
       /\ (d_pc = "AssertionError" /\ transactions' # transactions) =>
              Last(transactions').from_addr # house_addr]_vars

\* The registry was edited into a broken one after the pool had received
\* funds, and the reconciler's next iteration has ended it: nothing was paid.
C14_Witness ==
    /\ RegistryBroken
    /\ d_pc = "AssertionError"
    /\ get_balance_for_address(house_addr).balance > 0
    /\ \A tx \in Range(HouseHistory) : tx.from_addr # house_addr
    /\ reconciled_transactions # {}

RECURSIVE SumOwed(_, _)
\* What unpaid owes the receive addresses of set S, together.
SumOwed(unpaid, S) ==
    IF S = {} THEN 0
    ELSE LET r == CHOOSE x \in S : TRUE
         IN  Owed(unpaid, r) + SumOwed(unpaid, S \ {r})

\* C15: an iteration whose fold and prune leave more owed than the pool
\* balance it fetched ends the reconciler with the assertion's error, and a
\* reconciler so ended stays ended and no transfer leaves the pool.
C15_SolvencyViolationStops ==
    [][/\ (ReconcileFetch /\ SumOwed(unpaid_receipts', RecvAddrs) > house_balance') =>
              /\ d_pc' = "AssertionError"
              /\ UNCHANGED ledger_vars
       /\ (d_pc = "AssertionError" /\ restarts' = restarts) =>
              /\ d_pc' = "AssertionError"
              /\ transactions' # transactions => Last(transactions').from_addr # house_addr]_vars

\* A reconciler has ended on the solvency assertion, owing more than the pool
\* holds, under a valid registry.
C15_Witness ==
    /\ d_pc = "AssertionError"
    /\ SumOwed(unpaid_receipts, RecvAddrs) > house_balance
    /\ house_balance = get_balance_for_address(house_addr).balance
    /\ RegistryValid(recv_addr_to_wthd_addrs)

\* tx comes from no known receive address and goes to no known withdrawal
\* address.
Unrecognized(tx) ==
    /\ tx.from_addr \notin RecvAddrs
    /\ tx.to_addr \notin UNION {Range(recv_addr_to_wthd_addrs[r]) : r \in RecvAddrs}

\* C16: the fold puts the unrecognized transactions of the fetched history in
\* reconciled_transactions and otherwise ends as the fold of the history
\* without them; an iteration that finds the pool balance above the total
\* owed does not end the reconciler, it starts the payout loop exactly when
\* the count and the age thresholds are met.
C16_UnrecognizedAndSurplus ==
    [][(ReconcileFetch /\ RegistryValid(recv_addr_to_wthd_addrs)) =>
          LET known == SelectSeq(HouseHistory, LAMBDA tx : ~Unrecognized(tx))
              without == Fold(Bookkeeping, known, recv_addr_to_wthd_addrs)
          IN  /\ \A tx \in Range(HouseHistory) : tx \in reconciled_transactions'
              /\ unpaid_receipts' = Prune(without.unpaid)
              /\ newest_transaction_dt' = without.newest
              /\ house_balance' > SumOwed(unpaid_receipts', RecvAddrs) =>
                    /\ d_pc' \in Running
                    /\ d_pc' = "transfer" <=>
                          /\ unpaid_receipts' # <<>>
                          /\ Len(unpaid_receipts') >= min_distinct_receiver_addrs
                          /\ now >= newest_transaction_dt' + min_transaction_age]_vars

\* The reconciler has folded funds sent straight to the pool, newer than any
\* sweep, and is paying out of a pool that holds more than it owes.
C16_Witness ==
    /\ d_pc = "transfer"
    /\ house_balance > SumOwed(unpaid_receipts, RecvAddrs)
    /\ \E tx \in reconciled_transactions :
          /\ Unrecognized(tx)
          /\ tx.timestamp > newest_transaction_dt

\* C17: cancelling a task ends it and changes neither the ledger nor anything
\* of the other tasks; a cancelled task stays ended and no transaction of
\* its making is appended afterwards (a sweep from its receive address for a
\* gatherer, a transfer from the pool for the reconciler, until a fresh
\* reconciler is started).
C17_Cancellation ==
    [][/\ \A r \in RecvAddrs :
            /\ CancelGatherer(r) =>
                  /\ g_pc'[r] \notin Running
                  /\ \A q \in RecvAddrs \ {r} : g_pc'[q] = g_pc[q]
                  /\ UNCHANGED <<ledger_vars, g_sleep, recv_balance, reconciler_vars>>
            /\ g_pc[r] = "CancelledError" =>
                  /\ g_pc'[r] = "CancelledError"
                  /\ transactions' # transactions => Last(transactions').from_addr # r
       /\ CancelReconciler =>
              /\ d_pc' \notin Running
              /\ UNCHANGED <<ledger_vars, gatherer_vars>>
       /\ (d_pc = "CancelledError" /\ restarts' = restarts) =>
              /\ d_pc' = "CancelledError"
              /\ transactions' # transactions =>
                    Last(transactions').from_addr # house_addr]_vars

\* The reconciler was cancelled, and one gatherer while a deposit waited at
\* its receive address; the other gatherer is about to sweep.
C17_Witness ==
    /\ d_pc = "CancelledError"
    /\ \E r, q \in RecvAddrs :
          /\ g_pc[r] = "CancelledError"
          /\ get_balance_for_address(r).balance > 0
          /\ g_pc[q] = "transfer"

\* The latest timestamp among the transactions of txs that come from an
\* address of S; Epoch when there is none.
LatestSweep(txs, S) ==
    LET stamps == {txs[i].timestamp : i \in {j \in DOMAIN txs : txs[j].from_addr \in S}}
    IN  IF stamps = {} THEN Epoch
        ELSE CHOOSE t \in stamps : \A u \in stamps : u <= t

\* The receive addresses with an entry in unpaid.
OwedAddrs(unpaid) == {unpaid[i].addr : i \in DOMAIN unpaid}

\* C18 as stated: at the payout decision of an iteration that owes something,
\* the horizon is the latest timestamp among the sweeps of the receive
\* addresses that have an entry in unpaid_receipts.
C18_AsStated ==
    [][(/\ ReconcileFetch
        /\ d_pc' # "AssertionError"
        /\ unpaid_receipts' # <<>>) =>
            newest_transaction_dt' = LatestSweep(HouseHistory, OwedAddrs(unpaid_receipts'))]_vars

\* C18: at the payout decision of every iteration, the horizon is the latest
\* timestamp among all sweeps from registered receive addresses in the
\* fetched history, those of fully paid receive addresses included (the
\* initial horizon when there is none), also for a fresh reconciler after a
\* kill.
C18_HorizonIsNewestSweep ==
    [][(ReconcileFetch /\ RegistryValid(recv_addr_to_wthd_addrs)) =>
            newest_transaction_dt' = LatestSweep(HouseHistory, RecvAddrs)]_vars

\* A fresh reconciler after a kill in the middle of a batch has decided: it
\* still owes a receive address, and its horizon is the later sweep of a
\* receive address that the killed batch paid in full.
C18_Witness ==
    /\ restarts = 1
    /\ d_pc = "fetch"
    /\ d_sleep > 0
    /\ unpaid_receipts # <<>>
    /\ newest_transaction_dt = LatestSweep(HouseHistory, RecvAddrs)
    /\ newest_transaction_dt > LatestSweep(HouseHistory, OwedAddrs(unpaid_receipts))

(***************************************************************************)
(* Amounts on the wire.  frac2str formats a Fraction as the string of the  *)
(* Decimal quotient numerator / denominator, computed in the decimal       *)
(* module's default context; Fraction(...) parses the string back.  A      *)
(* string is a sequence of one-character strings, a coefficient a          *)
(* sequence of digits, most significant first.                             *)
(***************************************************************************)
\* The largest numerator and denominator of the amounts formatted.
MaxNumerator == 12

MaxDenominator == 7

\* The precision of the decimal module's default context, in significant
\* digits.
DecimalPrec == 28

DigitChars == <<"0", "1", "2", "3", "4", "5", "6", "7", "8", "9">>

RECURSIVE GCD(_, _)
GCD(a, b) == IF b = 0 THEN a ELSE GCD(b, a % b)

\* Fraction(n, d): in lowest terms.
Fraction(n, d) == [numerator |-> n \div GCD(n, d), denominator |-> d \div GCD(n, d)]

\* The decimal digits of a natural number.
RECURSIVE IntDigits(_)
IntDigits(n) == IF n < 10 THEN <<n>> ELSE Append(IntDigits(n \div 10), n % 10)

Front(s) == SubSeq(s, 1, Len(s) - 1)

\* Long division of r / d: the digits after the point, until the division
\* comes out even or sig significant digits have reached the precision.
RECURSIVE FracDigits(_, _, _, _)
FracDigits(r, d, sig, out) ==
    IF r = 0 \/ sig >= DecimalPrec THEN [digits |-> out, rem |-> r]
    ELSE LET q == (10 * r) \div d
         IN  CHOOSE res \in {FracDigits((10 * r) % d, d,
                                        IF sig = 0 /\ q = 0 THEN 0 ELSE sig + 1,
                                        next) : next \in {Append(out, q)}} : TRUE

\* A coefficient plus one in its last place.
RECURSIVE Increment(_)
Increment(ds) ==
    IF ds = <<>> THEN <<1>>
    ELSE IF Last(ds) < 9 THEN Append(Front(ds), Last(ds) + 1)
         ELSE Append(Increment(Front(ds)), 0)

\* Decimal(n) / Decimal(d) in the default context: the exact quotient when it
\* has at most DecimalPrec significant digits, else the quotient rounded to
\* DecimalPrec significant digits, half to even.  point is the number of
\* digits before the decimal point.
DecimalQuotient(n, d) ==
    LET int_digits == IntDigits(n \div d)
        div == FracDigits(n % d, d, IF n \div d = 0 THEN 0 ELSE Len(int_digits), <<>>)
        all == int_digits \o div.digits
        up == \/ 2 * div.rem > d
              \/ 2 * div.rem = d /\ Last(all) % 2 = 1
        rounded == Increment(all)
    IN  IF ~up THEN [digits |-> all, point |-> Len(int_digits)]
        ELSE IF Len(rounded) = Len(all)
             THEN [digits |-> rounded, point |-> Len(int_digits)]
             ELSE [digits |-> Front(rounded), point |-> Len(int_digits) + 1]

\* str(Decimal): positional notation, which is what str gives for every
\* quotient of the amounts formatted here (none is below 10^-6, and an exact
\* quotient of integers has no positive exponent).
DecimalStr(dec) ==
    LET chars == [i \in 1..Len(dec.digits) |-> DigitChars[dec.digits[i] + 1]]
    IN  IF dec.point = Len(chars) THEN chars
        ELSE SubSeq(chars, 1, dec.point) \o <<".">> \o SubSeq(chars, dec.point + 1, Len(chars))

frac2str(f) == DecimalStr(DecimalQuotient(f.numerator, f.denominator))


DigitOf(ch) == CHOOSE i \in 0..9 : DigitChars[i + 1] = ch

\* Fraction(str) of a decimal string: the digits without the point over ten
\* to the number of decimals.  The numerator is kept as a coefficient, the
\* denominator as its power of ten (scale), since neither fits a machine
\* integer at DecimalPrec digits.
ParseFraction(str) ==
    LET points == {i \in DOMAIN str : str[i] = "."}
        p == IF points = {} THEN Len(str) + 1 ELSE CHOOSE i \in points : TRUE
        digit_chars == SubSeq(str, 1, p - 1) \o SubSeq(str, p + 1, Len(str))
    IN  [digits |-> [i \in DOMAIN digit_chars |-> DigitOf(digit_chars[i])],
         scale |-> Len(digit_chars) - (p - 1)]

\* A coefficient times a small natural number, by the schoolbook method.
RECURSIVE Times(_, _, _)
Times(ds, m, carry) ==
    IF ds = <<>> THEN (IF carry = 0 THEN <<>> ELSE IntDigits(carry))
    ELSE LET p == Last(ds) * m + carry
         IN  Append(Times(Front(ds), m, p \div 10), p % 10)

RECURSIVE StripZeros(_)
StripZeros(ds) ==
    IF ds # <<>> /\ Head(ds) = 0 THEN StripZeros(Tail(ds)) ELSE ds

\* Fraction.__eq__ between a parsed amount digits / 10^scale and a Fraction
\* n / d, by cross multiplication: digits * d = n * 10^scale.
SameFraction(parsed, f) ==
    StripZeros(Times(parsed.digits, f.denominator, 0)) =
        StripZeros(IntDigits(f.numerator) \o [i \in 1..parsed.scale |-> 0])

\* The amounts formatted: every Fraction within the bounds.
Amounts == {Fraction(n, d) : n \in 0..MaxNumerator, d \in 1..MaxDenominator}

InitAmount ==
    /\ FreshStart(Registry2, 1)
    /\ frac \in Amounts
    /\ raw_amount = NoString
    /\ parsed_amount = NoFraction

\* post_transfer formats the amount of its JSON body.
FormatAmount ==
    /\ frac # NoFraction
    /\ raw_amount = NoString
    /\ raw_amount' = frac2str(frac)
    /\ UNCHANGED <<now, ledger_vars, recv_addr_to_wthd_addrs, min_distinct_receiver_addrs,
                   gatherer_vars, reconciler_vars, deposits, restarts, frac, parsed_amount>>

\* Transaction.from_raw parses the amount of a raw transaction.
ParseAmount ==
    /\ raw_amount # NoString
    /\ parsed_amount = NoFraction
    /\ parsed_amount' = ParseFraction(raw_amount)
    /\ UNCHANGED <<now, ledger_vars, recv_addr_to_wthd_addrs, min_distinct_receiver_addrs,
                   gatherer_vars, reconciler_vars, deposits, restarts, frac, raw_amount>>

NextAmount == FormatAmount \/ ParseAmount

SpecAmount == InitAmount /\ [][NextAmount]_vars

\* C19: an amount parsed from the wire string that frac2str produced for a
\* Fraction equals that Fraction, also when its decimal expansion does not
\* terminate.
C19_AmountRoundTrip ==
    parsed_amount # NoFraction => SameFraction(parsed_amount, frac)


(***************************************************************************)
(* A client with an address of its own, as the tests' source address: it   *)
(* is funded by a POST without fromAddress and posts transfers to the      *)
(* receive addresses, whether or not its balance covers them.              *)
(***************************************************************************)
src_addr == "src"

Fund(amount) ==
    /\ deposits < MaxDeposits
    /\ deposits' = deposits + 1
    /\ append_transaction_and_update_balances(Transaction(now, amount, src_addr, None))
    /\ UNCHANGED <<now, recv_addr_to_wthd_addrs, min_distinct_receiver_addrs, wire_vars,
                   gatherer_vars, reconciler_vars, restarts>>

ClientTransfer(from_addr, to_addr, amount) ==
    /\ deposits < MaxDeposits
    /\ deposits' = deposits + 1
    /\ \E ok \in BOOLEAN : post_transfer(from_addr, to_addr, amount, ok)
    /\ UNCHANGED <<now, recv_addr_to_wthd_addrs, min_distinct_receiver_addrs, wire_vars,
                   gatherer_vars, reconciler_vars, restarts>>

NextClient ==
    \/ Next
    \/ \E amount \in DepositAmounts : Fund(amount)
    \/ \E to_addr \in RecvAddrs, amount \in DepositAmounts :
          ClientTransfer(src_addr, to_addr, amount)

\* The four-way split, under which a payout can be rejected as well.
SpecClient == InitFourWay /\ [][NextClient]_vars

\* The transfer is an overdraft: the sender has never received funds, or has
\* less than the amount.
Overdraft(from_addr, amount) ==
    \/ from_addr \notin DOMAIN addresses
    \/ addresses[from_addr].balance < amount

\* C20: a transfer that is an overdraft is rejected and leaves the global
\* transaction list and every address's balance and transaction list as they
\* were; a reconciler whose transfer is rejected ends with
\* InsufficientFundsError, the ledger unchanged by the call.
C20_RejectionIsAtomic ==
    [][/\ \A to_addr \in RecvAddrs, amount \in DepositAmounts :
             (ClientTransfer(src_addr, to_addr, amount) /\ Overdraft(src_addr, amount)) =>
                 UNCHANGED ledger_vars
       /\ (d_pc # "InsufficientFundsError" /\ d_pc' = "InsufficientFundsError") =>
             UNCHANGED ledger_vars]_vars

\* The client's balance is positive and a transfer of more than it was
\* rejected: of the client's transfers posted, one is not on the ledger.
C20_Witness ==
    /\ src_addr \in DOMAIN addresses
    /\ addresses[src_addr].balance > 0
    /\ deposits = MaxDeposits
    /\ Len(transactions) = 1
    /\ transactions[1].to_addr = src_addr


(***************************************************************************)
(* The fold as a function of the history it is given.  The receive         *)
(* addresses and the pooling address are funded up front, so that the      *)
(* ledger accepts the transactions of FoldPool in any order; the ledger    *)
(* stamps each with a clock that need not agree with the order of arrival. *)
(***************************************************************************)
Funding ==
    <<Transaction(0, 2, "r1", None), Transaction(0, 1, "r2", None),
      Transaction(0, 3, house_addr, None)>>

\* Two sweeps and three payouts, in the order used for reference.
FoldPool ==
    <<Transaction(1, 2, house_addr, "r1"), Transaction(0, 1, house_addr, "r2"),
      Transaction(0, 1, "w11", house_addr), Transaction(2, 1, "w12", house_addr),
      Transaction(1, 1, "w21", house_addr)>>

InitFold ==
    LET db == AppendedAll([transactions |-> <<>>, addresses |-> <<>>], Funding)
    IN  /\ now = 0

        /\ transactions = db.transactions
        /\ addresses = db.addresses
        /\ recv_addr_to_wthd_addrs = Registry2
        /\ min_distinct_receiver_addrs = 1
        /\ g_pc = [r \in RecvAddrs |-> "fetch"]
        /\ recv_balance = [r \in RecvAddrs |-> 0]
        /\ g_sleep = [r \in RecvAddrs |-> 0]
        /\ d_pc = "fetch"
        /\ d_sleep = 0
        /\ unpaid_receipts = <<>>
        /\ reconciled_transactions = {}
        /\ newest_transaction_dt = Epoch
        /\ house_balance = 0
        /\ pay_recv = 0
        /\ pay_i = 0
        /\ balance_owed = 0
        /\ deposits = 0
        /\ restarts = 0
        /\ frac = NoFraction
        /\ raw_amount = NoString
        /\ parsed_amount = NoFraction

\* The ledger accepts a transaction of FoldPool that it does not hold yet.
Present(tx) ==
    /\ tx \notin Range(transactions)
    /\ append_transaction_and_update_balances(tx)
    /\ UNCHANGED <<now, recv_addr_to_wthd_addrs, min_distinct_receiver_addrs, wire_vars,
                   gatherer_vars, reconciler_vars, deposits, restarts>>

\* One poll of the reconciler as far as the prune: fetch, fold, prune.
FoldPoll ==
    /\ d_pc = "fetch"
    /\ LET fetched == get_balance_for_address(house_addr)
           folded == Fold([unpaid |-> unpaid_receipts,
                           reconciled |-> reconciled_transactions,
                           newest |-> newest_transaction_dt],
                          fetched.transactions, recv_addr_to_wthd_addrs)
       IN  /\ house_balance' = fetched.balance
           /\ unpaid_receipts' = Prune(folded.unpaid)
           /\ reconciled_transactions' = folded.reconciled
           /\ newest_transaction_dt' = folded.newest
    /\ UNCHANGED <<now, ledger_vars, recv_addr_to_wthd_addrs, min_distinct_receiver_addrs,
                   wire_vars, gatherer_vars, d_pc, d_sleep, pay_recv, pay_i, balance_owed,
                   deposits, restarts>>

NextFold ==
    \/ \E i \in DOMAIN FoldPool : Present(FoldPool[i])
    \/ FoldPoll

SpecFold == InitFold /\ [][NextFold]_vars

\* The transactions of S, in the order of Funding and FoldPool.
InReferenceOrder(S) == SelectSeq(Funding \o FoldPool, LAMBDA tx : tx \in S)

\* Fold and prune of the set S of transactions in one poll, in the reference
\* order.
FoldedAtOnce(S) ==
    LET folded == Fold(NothingFolded, InReferenceOrder(S), recv_addr_to_wthd_addrs)
    IN  [folded EXCEPT !.unpaid = Prune(folded.unpaid)]

\* C21: when the reconciler has folded exactly the set of transactions the
\* pooling address holds, in whatever order they arrived and over however
\* many polls, its unpaid_receipts (as a dict: the same keys with the same
\* amounts) and its horizon are those of folding that set at once in the
\* reference order.
C21_OrderInsensitiveFold ==
    reconciled_transactions = Range(HouseHistory) =>
        /\ Range(unpaid_receipts) = Range(FoldedAtOnce(Range(HouseHistory)).unpaid)
        /\ newest_transaction_dt = FoldedAtOnce(Range(HouseHistory)).newest

\* Four transactions of FoldPool have been folded, in an order that began
\* with a payout (so not the reference order); something is owed and the
\* horizon has moved.
C21_Witness ==
    /\ reconciled_transactions = Range(HouseHistory)
    /\ Len(transactions) = Len(Funding) + Len(FoldPool) - 1
    /\ transactions[Len(Funding) + 1].from_addr = house_addr
    /\ unpaid_receipts # <<>>
    /\ newest_transaction_dt > Epoch


\* C22: at all times the balance of a receive address plus what was swept
\* from it into the pool is what was deposited to it, and no gatherer has
\* been refused a sweep for insufficient funds; once no deposit is to come,
\* every receive address is eventually empty, all of it swept into the pool.
C22_SweepsConserveFunds ==
    /\ [](\A r \in RecvAddrs :
            /\ get_balance_for_address(r).balance + SweptFrom(HouseHistory, r)
                   = DepositedTo(r)
            /\ g_pc[r] # "InsufficientFundsError")
    /\ (now > 0) ~> (\A r \in RecvAddrs :
                        /\ get_balance_for_address(r).balance = 0
                        /\ SweptFrom(HouseHistory, r) = DepositedTo(r))

\* A deposit reached a receive address between its gatherer's fetch and
\* transfer: the sweep took less than the two deposits before it, and the
\* rest waits at the receive address.
C22_Witness ==
    \E r \in RecvAddrs :
        LET txs == get_balance_for_address(r).transactions
        IN  /\ Len(txs) = 3
            /\ txs[3].from_addr = r
            /\ txs[3].amount < txs[1].amount + txs[2].amount
            /\ get_balance_for_address(r).balance > 0
            /\ g_pc[r] = "fetch"


\* The runs with all deposits up front, under either threshold.
SpecLiveEither == Init /\ [][NextLive]_vars /\ Scheduling

\* The sweeps in the pool that the reconciler has not folded.
UnfoldedSweeps ==
    {i \in DOMAIN HouseHistory :
        /\ HouseHistory[i].from_addr \in RecvAddrs
        /\ HouseHistory[i] \notin reconciled_transactions}

\* A sweep has landed in the pool since the fetch of the running batch.
SweepLandedInBatch == d_pc = "transfer" /\ UnfoldedSweeps # {}

\* The part of history txs that the reconciler has folded.
FoldedPart(txs) == SelectSeq(txs, LAMBDA tx : tx \in reconciled_transactions)

\* C23 as stated: a sweep that lands during a batch is eventually paid out,
\* every receive address having been paid exactly what was swept from it.
C23_AsStated == SweepLandedInBatch ~> PaidWhatWasSwept

\* C23: a batch pays each receive address it lists what the folded sweeps less
\* the folded payouts come to, whatever sweeps land meanwhile; the next fold
\* credits such a sweep once; no receive address is ever paid more than was
\* swept from it; and eventually every receive address is paid exactly what
\* was swept from it, or everything is swept and fewer than
\* min_distinct_receiver_addrs receive addresses are still owed.
C23_SweepDuringBatch ==
    /\ [][/\ (ReconcileTransfer /\ d_pc' = "fetch") =>
                \A r \in OwedAddrs(unpaid_receipts) :
                    PaidFor(HouseHistory', r) = SweptFrom(FoldedPart(HouseHistory'), r)
          /\ ReconcileFetch =>
                \A r \in RecvAddrs :
                    Owed(unpaid_receipts', r) =
                        SweptFrom(HouseHistory, r) - PaidFor(HouseHistory, r)]_vars
    /\ [](\A r \in RecvAddrs : PaidFor(HouseHistory, r) <= SweptFrom(HouseHistory, r))
    /\ SweepLandedInBatch ~> (PaidWhatWasSwept \/ Stranded)

\* A sweep landed between two payouts of one batch, and every receive address
\* has since been paid exactly what was swept from it.
C23_Witness ==
    /\ PaidWhatWasSwept
    /\ d_pc = "fetch"
    /\ \E i, j, k \in DOMAIN HouseHistory :
          /\ i < j /\ j < k
          /\ HouseHistory[i].from_addr = house_addr
          /\ HouseHistory[k].from_addr = house_addr
          /\ HouseHistory[i].timestamp = HouseHistory[k].timestamp
          /\ HouseHistory[j].from_addr \in RecvAddrs


\* C24: once the solvency assert has passed, no transfer of the payout batch
\* is refused by the ledger for insufficient funds.
C24_PayoutsAccepted == d_pc # "InsufficientFundsError"


\* The transfers the pooling address has made, in history txs.
Payouts(txs) == SelectSeq(txs, LAMBDA tx : tx.from_addr = house_addr)

\* C25: every amount the reconciler has transferred, jittered amount or final
\* remainder, is greater than zero.
C25_PositiveTransfers ==
    \A i \in DOMAIN Payouts(HouseHistory) : Payouts(HouseHistory)[i].amount > 0


\* cents is num / den rounded to a whole number of cents: nearer than half a
\* cent, or exactly half a cent away and even.
RoundsTo(cents, num, den) ==
    LET twice == 2 * (cents * den - num)
    IN  \/ -den < twice /\ twice < den
        \/ twice \in {-den, den} /\ cents % 2 = 0

\* cents is (owed / n) x f rounded to 2 decimal places for some factor f of
\* [0.9, 1.1], in steps of a thousandth.
IsJitteredAmount(cents, owed, n) ==
    \E f \in JitterLow..JitterHigh : RoundsTo(cents, owed * f, n * JitterScale)

\* C26: each transfer of a split but the last, made for a receive address owed
\* B with N withdrawal addresses, goes to the next withdrawal address, is the
\* whole number of cents that (B / N) x f rounds to for some factor f in
\* [0.9, 1.1], and leaves as running remainder the previous remainder less
\* that amount.
C26_JitteredSplit ==
    [][(/\ ReconcileTransfer
        /\ transactions' # transactions
        /\ pay_i < Len(recv_addr_to_wthd_addrs[unpaid_receipts[pay_recv].addr]) - 1) =>
            LET recv_addr == unpaid_receipts[pay_recv].addr
                wthd_addrs == recv_addr_to_wthd_addrs[recv_addr]
                paid == Last(transactions')
            IN  /\ paid.from_addr = house_addr
                /\ paid.to_addr = wthd_addrs[pay_i + 1]
                /\ IsJitteredAmount(paid.amount, unpaid_receipts[pay_recv].owed,
                                    Len(wthd_addrs))
                /\ balance_owed' = balance_owed - paid.amount
                /\ pay_i' = pay_i + 1
                /\ Len(transactions') = Len(transactions) + 1]_vars

\* Two jittered transfers of one split have been made, of different amounts,
\* and the running remainder is what is left of the amount owed.
C26_Witness ==
    /\ d_pc = "transfer"
    /\ pay_i = 2
    /\ Len(Payouts(HouseHistory)) = 2
    /\ Payouts(HouseHistory)[1].amount # Payouts(HouseHistory)[2].amount
    /\ balance_owed = unpaid_receipts[pay_recv].owed
                        - Payouts(HouseHistory)[1].amount - Payouts(HouseHistory)[2].amount
    /\ balance_owed > 0


\* C27: after the prune of every iteration, every entry of unpaid_receipts is
\* greater than zero.
C27_PositiveEntries ==
    [][(ReconcileFetch /\ RegistryValid(recv_addr_to_wthd_addrs)) =>
            \A i \in DOMAIN unpaid_receipts' : unpaid_receipts'[i].owed > 0]_vars


(***************************************************************************)
(* An operator removes a receive address from the mapping, or puts it      *)
(* back, while the reconciler is between two iterations.                   *)
(***************************************************************************)
\* "r1" is no longer registered.
RegistryRemoved == [r2 |-> <<"w21">>]

KeyRegistries == {Registry2, RegistryRemoved}

NextRegistryKeys ==
    \/ Next
    \/ \E reg \in KeyRegistries : RegistryEdited(reg)

SpecRegistryKeys == Init /\ [][NextRegistryKeys]_vars

\* C28: in an iteration whose payout condition holds, every receive address
\* with an entry in unpaid_receipts is a key of the mapping as it is in that
\* iteration, and the lookup of its withdrawal addresses does not fail.
C28_WithdrawalSetFound ==
    [][(/\ ReconcileFetch
        /\ d_pc' # "AssertionError"
        /\ PayoutCondition(unpaid_receipts', newest_transaction_dt', now,
                           min_distinct_receiver_addrs)) =>
            /\ OwedAddrs(unpaid_receipts') \subseteq DOMAIN recv_addr_to_wthd_addrs
            /\ d_pc' # "KeyError"]_vars


(***************************************************************************)
(* An operator replaces or removes a withdrawal address of a receive       *)
(* address, and the reconciler is restarted on the same history.           *)
(***************************************************************************)
\* "w12" of r1 is replaced by "w13".
RegistryReplaced == [r1 |-> <<"w11", "w13">>, r2 |-> <<"w21">>]

\* "w12" of r1 is removed.
RegistryDropped == [r1 |-> <<"w11">>, r2 |-> <<"w21">>]

WthdRegistries == {Registry2, RegistryReplaced, RegistryDropped}

NextRegistryWthd ==
    \/ Next
    \/ \E reg \in WthdRegistries : RegistryEdited(reg)

SpecRegistryWthd == Init /\ [][NextRegistryWthd]_vars

\* Every withdrawal address recv_addr has had in some mapping of the run.
EverWthdAddrs(recv_addr) == UNION {Range(reg[recv_addr]) : reg \in WthdRegistries}

\* Total the pool has paid out for recv_addr over txs, whatever the mapping
\* is now.
PaidOutFor(txs, recv_addr) ==
    SumAmounts(SelectSeq(txs, LAMBDA tx :
        tx.from_addr = house_addr /\ tx.to_addr \in EverWthdAddrs(recv_addr)))

\* No two transactions of txs are equal by value.
DistinctByValue(txs) ==
    \A i, j \in DOMAIN txs : i # j => txs[i] # txs[j]

\* The history holds a payout to an address the mapping no longer lists.
PaidToUnlisted(txs) ==
    \E i \in DOMAIN txs :
        /\ txs[i].from_addr = house_addr
        /\ txs[i].to_addr \notin WthdAddrs(recv_addr_to_wthd_addrs)

\* C29: the first iteration of a reconciler restarted after a withdrawal
\* address that was already paid has been replaced or removed leaves, for
\* every receive address, an owed amount equal to what was swept from it
\* minus what was paid out for it, and passes the solvency check.
C29_ReplayAfterRegistryChange ==
    [][(/\ ReconcileFetch
        /\ restarts > 0
        /\ reconciled_transactions = {}
        /\ DistinctByValue(HouseHistory)
        /\ PaidToUnlisted(HouseHistory)) =>
            /\ d_pc' # "AssertionError"
            /\ \A r \in DOMAIN recv_addr_to_wthd_addrs :
                   Owed(unpaid_receipts', r) =
                       SweptFrom(HouseHistory, r) - PaidOutFor(HouseHistory, r)]_vars

====
